---- MODULE Spec2Model ----
(***************************************************************************)
(* Inference session layer of local-llm.                                   *)
(*                                                                         *)
(*   SpecChat    - the useChat hook (src/src/react/index.tsx) running      *)
(*                 inside an LLMProvider context: history, the pending     *)
(*                 submission, streaming accumulation, stop/clear/reload.  *)
(*   SpecChatLoop - SpecChat with a caller that keeps a send() handler.    *)
(*   SpecSession - createLLM (src/unnamed/part_000) and the two engine     *)
(*                 adapters (src/src/backends/*.ts) behind the facade.     *)
(*   SpecTokens  - the token loop of one stream() call of an adapter.      *)
(*   SpecStream  - LLMProvider with its auto-load effect, and useStream.   *)
(*   SpecChatComponent - LLMProvider and the <Chat> component              *)
(*                 (src/src/react/components.tsx), with fairness.          *)
(*   SpecChatUI  - a page that mounts useChat, <Chat> or useStream.        *)
(*   SpecProvider - LLMProvider with overlapping reload() calls.           *)
(*   SpecAttach  - attachToElements (src/unnamed/part_002).                *)
(*                                                                         *)
(* React state is modelled after commit: one action is one event handler   *)
(* (or one continuation of an async function) together with the state      *)
(* updates it batches.  Refs are read and written immediately.  A handler  *)
(* reads the state captured by the render that created it; a caller that   *)
(* keeps a handler across renders (an awaited loop of send() calls) reads  *)
(* the state of the render it took the handler from.                       *)
(***************************************************************************)
EXTENDS Integers, Sequences, FiniteSets, TLC

(***************************************************************************)
(* Bounds                                                                  *)
(***************************************************************************)
MaxSends == 2      \* send()/reload()/append() calls that reach the history
MaxTokens == 1     \* tokens one stream call delivers
MaxHolds == 1      \* times a caller keeps a send() handler across renders
MaxEngines == 2    \* load() calls made on one adapter
MaxUnloads == 2    \* unload() calls awaiting engine.unload() at a time
MaxLoads == 3      \* createLLM calls made by one LLMProvider
MaxReloads == 2    \* reload() calls of the context awaiting unload()
MaxChunks == 3     \* chunks the engine produces in one stream() call

(***************************************************************************)
(* Values                                                                  *)
(***************************************************************************)
NoText == "<null>"            \* null (pendingMessage, systemPrompt)
Undefined == "<undefined>"    \* send() called without an argument
Texts == {"A", "B"}           \* non-blank texts a user types
Blanks == {"", " "}           \* texts that trim() to the empty string
Tokens == {"x"}               \* tokens an engine produces
NoLLM == 0                    \* llm === null in the LLMProvider context
LoadedLLM == 1                \* llm is the facade createLLM returned last
StaleLLM == 2                 \* a facade kept by a caller and unloaded since

Msg(r, c) == [role |-> r, content |-> c]

RemoveAt(s, i) == SubSeq(s, 1, i - 1) \o SubSeq(s, i + 1, Len(s))

\* a trim that removes nothing
TrimNothing(s) == s

\* String.prototype.trim on the texts of the model
Trim(s) == IF s = " " THEN "" ELSE s

\* no element is attached
NoOptions == "<none>"

VARIABLES
    \* ---- LLMProvider context ----
    llm,              \* NoLLM or LoadedLLM
    isLoading,
    \* ---- useChat options ----
    initialMessages,
    systemPrompt,
    queueWhileLoading,
    \* ---- useChat state ----
    messages,
    input,
    isGenerating,
    streamingText,
    pendingMessage,
    abortRef,
    isProcessingRef,
    effectDue,        \* the pending-message effect is scheduled to run
    \* ---- environment of useChat ----
    streams,          \* the unfinished llm.stream calls of this hook
    held,             \* <<>> or <<the state captured with a kept handler>>
    holds,
    sends,
    cb,               \* last callback of the options that was invoked
    \* ---- createLLM ----
    config,           \* the LLMConfig createLLM was called with
    webgpu,           \* what detectCapabilities reports
    pc,               \* where createLLM stands
    useBackend,
    warned,           \* console.warn calls of createLLM
    \* ---- the adapter createLLM constructed ----
    engine,           \* this.engine / this.pipeline: NoEngine or a handle
    currentModel,
    created,          \* engine handles created so far
    loadOps,          \* load() calls awaiting the engine's initialisation
    unloadOps,        \* unload() calls awaiting engine.unload()
    lastCall,         \* outcome of the last chat() / stream() call
    lastLoad,         \* how the last settled load() call ended
    lastUnload,       \* what the last unload() call did with the engine
    live,             \* the engines created and not torn down, each with
                      \* the model it was created for
    \* ---- one stream() call inside an adapter ----
    chunks,           \* what the engine will still produce
    fullText,
    onTokenCalls,     \* the onToken(token, fullText) calls made so far
    returned,         \* NoText, or the value stream() resolved with
    \* ---- LLMProvider on its own ----
    error,            \* the error state is set
    hasLoadedRef,
    loadCalls,        \* createLLM calls made by load() so far
    onErrorCalls,     \* calls of the onError prop so far
    creating,         \* createLLM calls in flight
    reloads,          \* reload() calls of the context awaiting unload(),
                      \* each with the llm and isLoading of its render
    \* ---- useStream / Chat, which keep their state under the names of
    \* ---- useChat (abortRef, streams, cb; messages, input, ...) ----
    text,
    isStreaming,
    mounted,          \* which consumer of the context the state belongs to
    \* ---- attachToElements, which keeps input.value in input, the
    \* ---- output's text in text, its flag in isGenerating and the
    \* ---- generateFn calls in flight in streams ----
    options           \* the AttachOptions after their defaults

chatVars == <<llm, isLoading, initialMessages, systemPrompt,
              queueWhileLoading, messages, input, isGenerating,
              streamingText, pendingMessage, abortRef, isProcessingRef,
              effectDue, streams, held, holds, sends, cb>>
sessVars == <<config, webgpu, pc, useBackend, warned, engine, currentModel,
              created, loadOps, unloadOps, lastCall, lastLoad, lastUnload,
              live>>
tokenVars == <<chunks, fullText, onTokenCalls, returned>>
providerVars == <<error, hasLoadedRef, loadCalls, onErrorCalls, creating,
                  reloads>>
otherVars == <<tokenVars, providerVars, text, isStreaming, mounted, options>>
vars == <<chatVars, sessVars, otherVars>>


(***************************************************************************)
(* createLLM and the engine adapters                                       *)
(***************************************************************************)
NoEngine == 0
DEFAULT_WEBLLM_MODEL == "Phi-3.5-mini-instruct-q4f16_1-MLC"
DEFAULT_TRANSFORMERS_MODEL == "onnx-community/Qwen2.5-0.5B-Instruct"

\* the alias registries, restricted to the aliases of the model
WEBLLM_MODELS ==
    [a \in {"qwen-2.5-0.5b", "phi-3.5-mini"} |->
        IF a = "qwen-2.5-0.5b" THEN "Qwen2.5-0.5B-Instruct-q4f16_1-MLC"
                               ELSE "Phi-3.5-mini-instruct-q4f16_1-MLC"]
TRANSFORMERS_MODELS ==
    [a \in {"qwen-2.5-0.5b", "phi-3-mini"} |->
        IF a = "qwen-2.5-0.5b" THEN "onnx-community/Qwen2.5-0.5B-Instruct"
                               ELSE "Xenova/Phi-3-mini-4k-instruct"]

\* the registries are object literals: besides their own keys they have
\* the properties of Object.prototype (restricted to one), whose values are
\* functions
ObjectPrototypeKeys == {"toString"}
InheritedValue == "<function>"

\* `key in object`: own and inherited properties
In(key, object) == key \in DOMAIN object \cup ObjectPrototypeKeys

\* `object[key]`
Get(object, key) == IF key \in DOMAIN object THEN object[key]
                                             ELSE InheritedValue

\* resolveModelId of the adapter of backend b
resolveModelId(b, model) ==
    IF b = "webllm"
    THEN IF In(model, WEBLLM_MODELS) THEN Get(WEBLLM_MODELS, model)
                                    ELSE model
    ELSE IF In(model, TRANSFORMERS_MODELS)
         THEN Get(TRANSFORMERS_MODELS, model) ELSE model

\* a selection that takes an explicit request without consulting the probe
SelectBackendAsRequested(requested, gpu) ==
    IF requested = "auto" THEN (IF gpu THEN "webllm" ELSE "transformers")
    ELSE requested

\* createLLM: "Determine which backend to use"
SelectBackend(requested, gpu) ==
    IF requested = "auto" THEN (IF gpu THEN "webllm" ELSE "transformers")
    ELSE IF requested = "webllm"
         THEN (IF ~gpu THEN "transformers" ELSE "webllm")
         ELSE "transformers"

\* createLLM: the console.warn of the fallback branch
SelectWarns(requested, gpu) == requested = "webllm" /\ ~gpu

\* createLLM: config.model ?? default model of the backend
SelectModel(model, b) ==
    IF model # Undefined THEN model
    ELSE IF b = "webllm" THEN DEFAULT_WEBLLM_MODEL
                         ELSE DEFAULT_TRANSFORMERS_MODEL

\* the messages of an input: a string counts as one user message
InputMessages(in) ==
    IF in.kind = "string" THEN <<Msg("user", in.str)>> ELSE in.arr

\* a normalisation that pushes the system prompt after the input
normalizeMessagesSystemLast(in, sp) ==
    InputMessages(in)
    \o (IF sp \notin {NoText, ""} THEN <<Msg("system", sp)>> ELSE <<>>)

\* normalizeMessages(input, systemPrompt); input is a string or an array
normalizeMessages(in, sp) ==
    (IF sp \notin {NoText, ""} THEN <<Msg("system", sp)>> ELSE <<>>)
    \o (IF in.kind = "string" THEN <<Msg("user", in.str)>> ELSE in.arr)

\* chat() and stream() without their guard
NotLoadedUnchecked(b, e, m) == FALSE

\* the guard of chat() and stream(): the call throws 'Model not loaded'
NotLoaded(b, e, m) ==
    IF b = "webllm" THEN e = NoEngine
                    ELSE e = NoEngine \/ m = NoText

\* the getters of the adapter, which the facade forwards
providerIsReady == engine # NoEngine /\ currentModel # NoText
providerModelId == currentModel
facadeBackend == useBackend

adapterVars == <<engine, currentModel, created, loadOps, unloadOps, live>>

\* an engine: the handle CreateMLCEngine / pipeline() returned and the
\* model it was given
Engine(h, m) == [h |-> h, model |-> m]

\* the engines alive once load() stored r: CreateMLCEngine adds one and the
\* engine this.engine held is not unloaded; a pipeline replaced in
\* this.pipeline is dropped, which is all TransformersProvider.unload does
LiveAfterLoad(b, r) == IF b = "webllm" THEN live \cup {r} ELSE {r}

\* the engines alive once engine h was torn down
LiveAfterTeardown(h) == {r \in live : r.h # h}
selectVars == <<config, webgpu, useBackend, warned>>

\* createLLM after `await detectCapabilities()` up to `await provider.load`
createLLM ==
    /\ pc = "Probe"
    /\ useBackend' = SelectBackend(config.backend, webgpu)
    /\ warned' = IF SelectWarns(config.backend, webgpu) THEN warned + 1
                                                        ELSE warned
    /\ loadOps' = <<resolveModelId(useBackend',
                                   SelectModel(config.model, useBackend'))>>
    /\ pc' = "Load"
    /\ UNCHANGED <<config, webgpu, engine, currentModel, created, unloadOps,
                   lastCall, lastLoad, lastUnload, live, chatVars,
                   otherVars>>

\* load(modelId) called on the adapter again
load(modelId) ==
    /\ pc \in {"Ready", "LoadFailed"}
    /\ created + Len(loadOps) < MaxEngines
    /\ loadOps' = Append(loadOps, resolveModelId(useBackend, modelId))
    /\ UNCHANGED <<selectVars, pc, engine, currentModel, created, unloadOps,
                   lastCall, lastLoad, lastUnload, live, chatVars,
                   otherVars>>

\* a load() that stores the engine and leaves currentModel as it was
LoadResolvesEngineOnly(i) ==
    /\ i \in 1..Len(loadOps)
    /\ engine' = created + 1
    /\ created' = created + 1
    /\ live' = LiveAfterLoad(useBackend, Engine(created + 1, loadOps[i]))
    /\ loadOps' = RemoveAt(loadOps, i)
    /\ pc' = IF pc = "Load" THEN "Ready" ELSE pc
    /\ lastLoad' = "resolved"
    /\ UNCHANGED <<selectVars, currentModel, unloadOps, lastCall,
                   lastUnload, chatVars, otherVars>>

\* the engine's initialisation resolved: load() sets engine and currentModel;
\* createLLM, when it awaits this load, returns the facade
LoadResolves(i) ==
    /\ i \in 1..Len(loadOps)
    /\ engine' = created + 1
    /\ created' = created + 1
    /\ currentModel' = loadOps[i]
    /\ live' = LiveAfterLoad(useBackend, Engine(created + 1, loadOps[i]))
    /\ loadOps' = RemoveAt(loadOps, i)
    /\ pc' = IF pc = "Load" THEN "Ready" ELSE pc
    /\ lastLoad' = "resolved"
    /\ UNCHANGED <<selectVars, unloadOps, lastCall, lastUnload, chatVars,
                   otherVars>>

\* a load() that records the model before the engine is initialised
LoadRejectsModelSet(i) ==
    /\ i \in 1..Len(loadOps)
    /\ loadOps' = RemoveAt(loadOps, i)
    /\ pc' = IF pc = "Load" THEN "LoadFailed" ELSE pc
    /\ lastLoad' = "rejected"
    /\ currentModel' = loadOps[i]
    /\ UNCHANGED <<selectVars, engine, created, unloadOps, lastCall,
                   lastUnload, live, chatVars, otherVars>>

\* the engine's initialisation rejected: load() rethrows, createLLM rejects
LoadRejects(i) ==
    /\ i \in 1..Len(loadOps)
    /\ loadOps' = RemoveAt(loadOps, i)
    /\ pc' = IF pc = "Load" THEN "LoadFailed" ELSE pc
    /\ lastLoad' = "rejected"
    /\ UNCHANGED <<selectVars, engine, currentModel, created, unloadOps,
                   lastCall, lastUnload, live, chatVars, otherVars>>

\* chat(messages) / stream(messages, onToken) up to the call of the engine;
\* calls counts them modulo 2, so that a repeated call is a step; arg is the
\* caller's argument after the call (normalizeMessages fills a new array)
Request(op, in) ==
    /\ pc # "Probe"
    /\ lastCall' =
          IF NotLoaded(useBackend, engine, currentModel)
          THEN [op |-> op, result |-> "NotLoaded", req |-> <<>>,
                arg |-> in, calls |-> 1 - lastCall.calls]
          ELSE [op |-> op, result |-> "served",
                req |-> normalizeMessages(in, config.systemPrompt),
                arg |-> in, calls |-> 1 - lastCall.calls]
    /\ UNCHANGED <<selectVars, pc, adapterVars, lastLoad, lastUnload,
                   chatVars, otherVars>>

chat(in) == Request("chat", in)
stream(in) == Request("stream", in)

\* an unload() that calls the engine's unload() whatever this.engine is
unloadTearsDownAlways(b, e) == b = "webllm"

\* unload() calls the engine's own unload(): WebLLMProvider, `if (this.engine)`
unloadTearsDown(b, e) == b = "webllm" /\ e # NoEngine

\* unload(): WebLLMProvider awaits engine.unload() when it has an engine,
\* TransformersProvider drops its pipeline at once
unload ==
    /\ pc # "Probe"
    /\ IF unloadTearsDown(useBackend, engine)
       THEN /\ unloadOps' = Append(unloadOps, engine)
            /\ lastUnload' = "teardown"
            /\ UNCHANGED <<engine, currentModel, live>>
       ELSE /\ lastUnload' = "no teardown"
            /\ IF useBackend = "webllm"
               THEN UNCHANGED <<engine, currentModel, unloadOps, live>>
               ELSE /\ engine' = NoEngine
                    /\ currentModel' = NoText
                    /\ live' = LiveAfterTeardown(engine)
                    /\ UNCHANGED unloadOps
    /\ Len(unloadOps') <= MaxUnloads
    /\ UNCHANGED <<selectVars, pc, created, loadOps, lastCall, lastLoad,
                   chatVars, otherVars>>

\* engine.unload() resolved: WebLLMProvider.unload clears its state
UnloadResolves(i) ==
    /\ i \in 1..Len(unloadOps)
    /\ engine' = NoEngine
    /\ currentModel' = NoText
    /\ live' = LiveAfterTeardown(unloadOps[i])
    /\ unloadOps' = RemoveAt(unloadOps, i)
    /\ UNCHANGED <<selectVars, pc, created, loadOps, lastCall, lastLoad,
                   lastUnload, chatVars, otherVars>>

Inputs == {[kind |-> "string", str |-> "hi", arr |-> <<>>],
           [kind |-> "array", str |-> "",
            arr |-> <<[role |-> "user", content |-> "hi"]>>],
           [kind |-> "array", str |-> "",
            arr |-> <<[role |-> "user", content |-> "hi"],
                      [role |-> "assistant", content |-> "yo"]>>]}
Configs == [backend : {"auto", "webllm", "transformers"},
            model : {Undefined, "qwen-2.5-0.5b"},
            systemPrompt : {NoText, "", "S"}]
\* the identifiers load() is called with: an alias, two identifiers that
\* are no alias
ModelIds == {"qwen-2.5-0.5b", "my/model", "toString"}
NoCall == [op |-> "none", result |-> "none", req |-> <<>>,
           arg |-> [kind |-> "none", str |-> "", arr |-> <<>>], calls |-> 0]

(***************************************************************************)
(* useChat: helpers                                                        *)
(***************************************************************************)
\* LLMContextValue.isReady: llm?.isReady ?? false, memoised per llm instance
isReady(l) == l # NoLLM

\* the render state a handler created by the current render reads
Render == [messages |-> messages, input |-> input, llm |-> llm,
           isLoading |-> isLoading]

\* options.onStart / onToken / onFinish / onError being invoked: cb keeps
\* the last invocation
Call(ev) == ev

\* generateResponse without its reentrancy guard
generateResponseIgnoresRef(cllm, processing) == ~isReady(cllm)

\* the early return of generateResponse
generateResponseReturns(cllm, processing) == ~isReady(cllm) \/ processing

\* apiMessages as built by generateResponse
apiMessages(userContent, currentMessages) ==
    (IF systemPrompt # NoText /\ systemPrompt # ""
        THEN <<Msg("system", systemPrompt)>> ELSE <<>>)
    \o currentMessages \o <<Msg("user", userContent)>>

\* messages.findLastIndex((m) => m.role === 'user'), 0 for -1
findLastUserIndex(ms) ==
    LET I == {i \in 1..Len(ms) : ms[i].role = "user"}
    IN  IF I = {} THEN 0 ELSE CHOOSE i \in I : \A j \in I : j <= i

\* one of the effect's dependencies isReady, pendingMessage, messages,
\* generateResponse differs between the render before and after the step
\* (the options, of which generateResponse depends, are the same objects in
\* every render, as in ChatStressTest)
DepsChanged ==
    llm' # llm \/ pendingMessage' # pendingMessage \/ messages' # messages

NewStream(userContent, currentMessages, cllm) ==
    [content |-> userContent,
     api |-> apiMessages(userContent, currentMessages),
     full |-> "", n |-> 0,
     ok |-> cllm = llm]     \* the facade called is the one still loaded

(***************************************************************************)
(* useChat: generateResponse up to its await, called with the history      *)
(* `base` left by the state updates queued before it in the same handler   *)
(***************************************************************************)
generateResponse(userContent, currentMessages, cllm, base) ==
    IF generateResponseReturns(cllm, isProcessingRef)
    THEN /\ messages' = base
         /\ UNCHANGED <<isGenerating, streamingText, abortRef,
                        isProcessingRef, streams, cb>>
    ELSE /\ isProcessingRef' = TRUE
         /\ messages' = Append(base, Msg("user", userContent))
         /\ isGenerating' = TRUE
         /\ streamingText' = ""
         /\ abortRef' = FALSE
         /\ cb' = Call(<<"onStart">>)
         /\ streams' = Append(streams,
                              NewStream(userContent, currentMessages, cllm))

\* the controlled input after send(content): cleared when content is falsy
InputAfterSend(content) == IF content \in {Undefined, ""} THEN "" ELSE input

\* send(content) of the render that captured c
send(content, c, base) ==
    LET messageContent == IF content = Undefined THEN c.input ELSE content
    IN  IF Trim(messageContent) = ""
        THEN /\ messages' = base
             /\ UNCHANGED <<input, pendingMessage, isGenerating,
                            streamingText, abortRef, isProcessingRef,
                            streams, cb>>
        ELSE /\ input' = InputAfterSend(content)
             /\ IF isReady(c.llm)
                THEN /\ generateResponse(messageContent, c.messages,
                                         c.llm, base)
                     /\ UNCHANGED pendingMessage
                ELSE IF c.isLoading /\ queueWhileLoading
                THEN /\ messages' = Append(base, Msg("user", messageContent))
                     /\ pendingMessage' = messageContent
                     /\ UNCHANGED <<isGenerating, streamingText, abortRef,
                                    isProcessingRef, streams, cb>>
                ELSE /\ messages' = base
                     /\ UNCHANGED <<pendingMessage, isGenerating,
                                    streamingText, abortRef,
                                    isProcessingRef, streams, cb>>

CountSend(base) == sends' = IF Len(messages') > Len(base) THEN sends + 1
                                                          ELSE sends

provVars == <<llm, isLoading>>
optVars == <<initialMessages, systemPrompt, queueWhileLoading>>

(***************************************************************************)
(* useChat: the operations                                                 *)
(***************************************************************************)
Send(content) ==
    /\ ~effectDue
    /\ sends < MaxSends
    /\ send(content, Render, messages)
    /\ CountSend(messages)
    /\ UNCHANGED <<provVars, optVars, held, holds, sessVars, otherVars>>
    /\ effectDue' = DepsChanged

\* a caller keeps the send of the current render (runStressTest)
Hold ==
    /\ ~effectDue
    /\ holds < MaxHolds
    /\ ~isGenerating /\ pendingMessage = NoText    \* the button is enabled
    /\ held' = <<Render>>
    /\ holds' = holds + 1
    /\ UNCHANGED <<provVars, optVars, messages, input, isGenerating,
                   streamingText, pendingMessage, abortRef, isProcessingRef,
                   effectDue, streams, sends, cb, sessVars, otherVars>>

\* ... and calls it after later renders
SendHeld(content) ==
    /\ ~effectDue
    /\ sends < MaxSends
    /\ held # <<>>
    /\ held[1] # Render
    /\ send(content, held[1], messages)
    /\ CountSend(messages)
    /\ UNCHANGED <<provVars, optVars, held, holds, sessVars, otherVars>>
    /\ effectDue' = DepsChanged

SetInput(v) ==
    /\ ~effectDue
    /\ input # v
    /\ input' = v
    /\ UNCHANGED <<provVars, optVars, messages, isGenerating, streamingText,
                   pendingMessage, abortRef, isProcessingRef, effectDue,
                   streams, held, holds, sends, cb, sessVars, otherVars>>

\* a stop() that takes any streamingText for a partial text
hasPartialAlways(partial) == TRUE

\* `if (streamingText)` in stop(): a string is truthy unless it is empty
hasPartial(partial) == partial # ""

\* stop() committing the partial text without the ellipsis marker
StopCommitNoMarker(ms, partial) ==
    IF hasPartial(partial) THEN Append(ms, Msg("assistant", partial)) ELSE ms

\* what stop() appends to the history
StopCommit(ms, partial) ==
    IF hasPartial(partial)
    THEN Append(ms, Msg("assistant", partial \o "...")) ELSE ms

\* a stop() that cancels the stream calls in flight
StopCancels ==
    /\ ~effectDue
    /\ abortRef' = TRUE
    /\ isGenerating' = FALSE
    /\ pendingMessage' = NoText
    /\ messages' = StopCommit(messages, streamingText)
    /\ streamingText' = ""
    /\ streams' = <<>>
    /\ UNCHANGED <<provVars, optVars, input, isProcessingRef, held,
                   holds, sends, cb, sessVars, otherVars>>
    /\ effectDue' = DepsChanged

Stop ==
    /\ ~effectDue
    /\ abortRef' = TRUE
    /\ isGenerating' = FALSE
    /\ pendingMessage' = NoText
    /\ messages' = StopCommit(messages, streamingText)
    /\ streamingText' = ""
    /\ UNCHANGED <<provVars, optVars, input, isProcessingRef, streams, held,
                   holds, sends, cb, sessVars, otherVars>>
    /\ effectDue' = DepsChanged

\* a clear() that leaves the pending submission
ClearKeepsPending ==
    /\ ~effectDue
    /\ messages' = initialMessages
    /\ streamingText' = ""
    /\ input' = ""
    /\ UNCHANGED <<provVars, optVars, isGenerating, pendingMessage, abortRef,
                   isProcessingRef, streams, held, holds, sends, cb,
                   sessVars, otherVars>>
    /\ effectDue' = DepsChanged

Clear ==
    /\ ~effectDue
    /\ messages' = initialMessages
    /\ streamingText' = ""
    /\ input' = ""
    /\ pendingMessage' = NoText
    /\ UNCHANGED <<provVars, optVars, isGenerating, abortRef,
                   isProcessingRef, streams, held, holds, sends, cb, sessVars, otherVars>>
    /\ effectDue' = DepsChanged

AppendMsg(m) ==
    /\ ~effectDue
    /\ sends < MaxSends
    /\ messages' = Append(messages, m)
    /\ sends' = sends + 1
    /\ effectDue' = TRUE
    /\ UNCHANGED <<provVars, optVars, input, isGenerating, streamingText,
                   pendingMessage, abortRef, isProcessingRef, streams, held,
                   holds, cb, sessVars, otherVars>>

Reload ==
    /\ ~effectDue
    /\ sends < MaxSends
    /\ LET lastUserIndex == findLastUserIndex(messages)
       IN  IF lastUserIndex = 0
           THEN UNCHANGED <<messages, input, pendingMessage, isGenerating,
                            streamingText, abortRef, isProcessingRef,
                            streams, cb>>
           ELSE LET previousMessages == SubSeq(messages, 1, lastUserIndex - 1)
                IN  send(messages[lastUserIndex].content, Render,
                         previousMessages)
    /\ sends' = sends + 1
    /\ UNCHANGED <<provVars, optVars, held, holds, sessVars, otherVars>>
    /\ effectDue' = DepsChanged

\* an effect that does not look at pendingMessage
PendingEffectUnconditional ==
    /\ effectDue
    /\ IF isReady(llm) /\ ~isProcessingRef
       THEN /\ pendingMessage' = NoText
            /\ generateResponse(pendingMessage, messages, llm, messages)
       ELSE UNCHANGED <<messages, pendingMessage, isGenerating,
                        streamingText, abortRef, isProcessingRef, streams,
                        cb>>
    /\ UNCHANGED <<provVars, optVars, input, held, holds, sends, sessVars, otherVars>>
    /\ effectDue' = DepsChanged

\* the effect "process pending message when model becomes ready"
PendingEffect ==
    /\ effectDue
    /\ IF isReady(llm) /\ pendingMessage \notin {NoText, ""}
          /\ ~isProcessingRef
       THEN /\ pendingMessage' = NoText
            /\ generateResponse(pendingMessage, messages, llm, messages)
       ELSE UNCHANGED <<messages, pendingMessage, isGenerating,
                        streamingText, abortRef, isProcessingRef, streams,
                        cb>>
    /\ UNCHANGED <<provVars, optVars, input, held, holds, sends, sessVars, otherVars>>
    /\ effectDue' = DepsChanged

(***************************************************************************)
(* llm.stream as seen by generateResponse: token callbacks, then the       *)
(* promise resolves or rejects and generateResponse continues              *)
(***************************************************************************)
\* a token callback that does not look at abortRef
TokenNeverDropped(aborted) == FALSE

\* the token callback passed to llm.stream drops the token
TokenDropped(aborted) == aborted

StreamToken(i, token) ==
    /\ ~effectDue
    /\ i \in 1..Len(streams)
    /\ streams[i].ok
    /\ streams[i].n < MaxTokens
    /\ LET fullTextSoFar == streams[i].full \o token
       IN  /\ streams' = [streams EXCEPT ![i].full = fullTextSoFar,
                                         ![i].n = @ + 1]
           /\ IF TokenDropped(abortRef)
              THEN UNCHANGED <<streamingText, cb>>
              ELSE /\ streamingText' = fullTextSoFar
                   /\ cb' = Call(<<"onToken", token, fullTextSoFar>>)
    /\ UNCHANGED <<provVars, optVars, messages, input, isGenerating,
                   pendingMessage, abortRef, isProcessingRef, effectDue,
                   held, holds, sends, sessVars, otherVars>>

\* a generateResponse that never commits the response
CommitResponseNever(aborted) == FALSE

\* the response is committed after llm.stream resolved
CommitResponse(aborted) == ~aborted

StreamEnd(i) ==
    /\ ~effectDue
    /\ i \in 1..Len(streams)
    /\ streams[i].ok
    /\ LET response == streams[i].full
       IN  IF CommitResponse(abortRef)
           THEN /\ messages' = Append(messages, Msg("assistant", response))
                /\ streamingText' = ""
                /\ cb' = Call(<<"onFinish", response>>)
           ELSE UNCHANGED <<messages, streamingText, cb>>
    /\ streams' = RemoveAt(streams, i)
    /\ isGenerating' = FALSE
    /\ isProcessingRef' = FALSE
    /\ UNCHANGED <<provVars, optVars, input, pendingMessage, abortRef, held,
                   holds, sends, sessVars, otherVars>>
    /\ effectDue' = DepsChanged

\* a catch/finally that leaves the reentrancy guard set
StreamErrorKeepsGuard(i) ==
    /\ ~effectDue
    /\ i \in 1..Len(streams)
    /\ cb' = Call(<<"onError">>)
    /\ streams' = RemoveAt(streams, i)
    /\ isGenerating' = FALSE
    /\ UNCHANGED <<provVars, optVars, messages, input, streamingText,
                   pendingMessage, abortRef, isProcessingRef, effectDue,
                   held, holds, sends, sessVars, otherVars>>

\* llm.stream rejected: catch (onError), finally
StreamError(i) ==
    /\ ~effectDue
    /\ i \in 1..Len(streams)
    /\ cb' = Call(<<"onError">>)
    /\ streams' = RemoveAt(streams, i)
    /\ isGenerating' = FALSE
    /\ isProcessingRef' = FALSE
    /\ UNCHANGED <<provVars, optVars, messages, input, streamingText,
                   pendingMessage, abortRef, effectDue, held, holds, sends,
                   sessVars, otherVars>>

(***************************************************************************)
(* LLMProvider as the context of useChat                                   *)
(***************************************************************************)
chatState == <<messages, input, isGenerating, streamingText, pendingMessage,
               abortRef, isProcessingRef, streams, held, holds, sends, cb>>

\* load() up to its await of createLLM (auto-load effect, or reload())
ProviderLoadStart ==
    /\ ~effectDue
    /\ ~isLoading
    /\ llm = NoLLM
    /\ isLoading' = TRUE
    /\ UNCHANGED <<llm, optVars, chatState, effectDue, sessVars, otherVars>>

\* createLLM resolved: setLLM(instance), finally setIsLoading(false)
ProviderLoadSucceed ==
    /\ ~effectDue
    /\ isLoading
    /\ llm' = LoadedLLM
    /\ isLoading' = FALSE
    /\ effectDue' = TRUE
    /\ UNCHANGED <<optVars, chatState, sessVars, otherVars>>

\* createLLM rejected: setError, finally setIsLoading(false)
ProviderLoadFail ==
    /\ ~effectDue
    /\ isLoading
    /\ isLoading' = FALSE
    /\ UNCHANGED <<llm, optVars, chatState, effectDue, sessVars, otherVars>>

\* unload(): await llm.unload(); setLLM(null)
ProviderUnload ==
    /\ ~effectDue
    /\ llm # NoLLM
    /\ llm' = NoLLM
    /\ held' = [k \in DOMAIN held |-> [held[k] EXCEPT !.llm =
                    IF @ = LoadedLLM THEN StaleLLM ELSE @]]
    /\ effectDue' = TRUE
    /\ UNCHANGED <<isLoading, optVars, messages, input, isGenerating,
                   streamingText, pendingMessage, abortRef, isProcessingRef,
                   streams, holds, sends, cb, sessVars, otherVars>>

(***************************************************************************)
(* SpecChat                                                                *)
(***************************************************************************)
\* the options useChat is mounted with
Options ==
    {[initialMessages |-> <<>>, systemPrompt |-> "S",
      queueWhileLoading |-> TRUE],
     [initialMessages |-> <<Msg("assistant", "hi")>>, systemPrompt |-> NoText,
      queueWhileLoading |-> TRUE],
     [initialMessages |-> <<>>, systemPrompt |-> NoText,
      queueWhileLoading |-> FALSE]}

SessUnused ==
    /\ config = [backend |-> "auto", model |-> Undefined,
                 systemPrompt |-> NoText]
    /\ webgpu = FALSE /\ pc = "Probe" /\ useBackend = "none" /\ warned = 0
    /\ engine = NoEngine /\ currentModel = NoText /\ created = 0
    /\ loadOps = <<>> /\ unloadOps = <<>> /\ lastCall = NoCall
    /\ lastLoad = "-" /\ lastUnload = "-" /\ live = {}

\* no stream() call is followed inside an adapter
TokensUnused ==
    chunks = <<>> /\ fullText = "" /\ onTokenCalls = <<>> /\ returned = NoText

\* the bookkeeping of LLMProvider is not followed
ProviderUnused ==
    /\ error = FALSE /\ hasLoadedRef = FALSE
    /\ loadCalls = 0 /\ onErrorCalls = 0
    /\ creating = 0 /\ reloads = <<>>

InitChat ==
    /\ llm = NoLLM /\ isLoading = FALSE
    /\ \E o \in Options :
          /\ initialMessages = o.initialMessages
          /\ systemPrompt = o.systemPrompt
          /\ queueWhileLoading = o.queueWhileLoading
    /\ messages = initialMessages
    /\ input = ""
    /\ isGenerating = FALSE
    /\ streamingText = ""
    /\ pendingMessage = NoText
    /\ abortRef = FALSE
    /\ isProcessingRef = FALSE
    /\ effectDue = FALSE
    /\ streams = <<>>
    /\ held = <<>>
    /\ holds = 0
    /\ sends = 0
    /\ cb = <<"none">>
    /\ SessUnused
    /\ TokensUnused /\ ProviderUnused
    /\ text = "" /\ isStreaming = FALSE /\ mounted = "useChat"
    /\ options = NoOptions

NextChat ==
    \/ \E content \in Texts \cup Blanks \cup {Undefined} : Send(content)
    \/ \E v \in {"", "A"} : SetInput(v)
    \/ Stop
    \/ Clear
    \/ \E m \in {Msg("user", " ")} : AppendMsg(m)
    \/ Reload
    \/ PendingEffect
    \/ \E i \in 1..Len(streams), token \in Tokens : StreamToken(i, token)
    \/ \E i \in 1..Len(streams) : StreamEnd(i)
    \/ \E i \in 1..Len(streams) : StreamError(i)
    \/ ProviderLoadStart
    \/ ProviderLoadSucceed
    \/ ProviderLoadFail
    \/ ProviderUnload

SpecChat == InitChat /\ [][NextChat]_vars

\* useChat driven by a caller that also keeps a send() across renders
NextChatLoop ==
    \/ NextChat
    \/ Hold
    \/ \E content \in Texts : SendHeld(content)

SpecChatLoop == InitChat /\ [][NextChatLoop]_vars

(***************************************************************************)
(* SpecSession                                                             *)
(***************************************************************************)
ChatUnused ==
    /\ llm = NoLLM /\ isLoading = FALSE
    /\ initialMessages = <<>> /\ systemPrompt = NoText
    /\ queueWhileLoading = TRUE
    /\ messages = <<>> /\ input = "" /\ isGenerating = FALSE
    /\ streamingText = "" /\ pendingMessage = NoText
    /\ abortRef = FALSE /\ isProcessingRef = FALSE /\ effectDue = FALSE
    /\ streams = <<>> /\ held = <<>> /\ holds = 0 /\ sends = 0
    /\ cb = <<"none">>

InitSession ==
    /\ config \in Configs
    /\ webgpu \in BOOLEAN
    /\ pc = "Probe"
    /\ useBackend = "none"
    /\ warned = 0
    /\ engine = NoEngine
    /\ currentModel = NoText
    /\ created = 0
    /\ loadOps = <<>>
    /\ unloadOps = <<>>
    /\ lastCall = NoCall
    /\ lastLoad = "-"
    /\ lastUnload = "-"
    /\ live = {}
    /\ ChatUnused
    /\ TokensUnused /\ ProviderUnused
    /\ text = "" /\ isStreaming = FALSE /\ mounted = "none"
    /\ options = NoOptions

NextSession ==
    \/ createLLM
    \/ \E modelId \in ModelIds : load(modelId)
    \/ \E i \in 1..Len(loadOps) : LoadResolves(i)
    \/ \E i \in 1..Len(loadOps) : LoadRejects(i)
    \/ \E in \in Inputs : chat(in)
    \/ \E in \in Inputs : stream(in)
    \/ unload
    \/ \E i \in 1..Len(unloadOps) : UnloadResolves(i)

SpecSession == InitSession /\ [][NextSession]_vars


(***************************************************************************)
(* One stream() call inside an adapter: the engine hands over its chunks   *)
(* one by one, then the call returns                                       *)
(***************************************************************************)
\* the texts a chunk can carry (a chunk without content counts as '')
ChunkTexts == {"", "a", "b"}

\* an accumulation that keeps the last token only
AccumulateLast(full, token) == token

\* fullText += token
Accumulate(full, token) == full \o token

\* the chunk reaches onToken: WebLLMProvider skips empty tokens
\* (`if (token)`), the TextStreamer callback of TransformersProvider does not
DeliversToken(b, token) == b = "webllm" => token # ""

\* one iteration of `for await (const chunk of chunks)` / one call of the
\* streamer's callback_function
NextChunk ==
    /\ chunks # <<>>
    /\ returned = NoText
    /\ LET token == Head(chunks)
       IN  IF DeliversToken(useBackend, token)
           THEN /\ fullText' = Accumulate(fullText, token)
                /\ onTokenCalls' = Append(onTokenCalls, <<token, fullText'>>)
           ELSE UNCHANGED <<fullText, onTokenCalls>>
    /\ chunks' = Tail(chunks)
    /\ UNCHANGED <<returned, chatVars, sessVars, providerVars, text,
                   isStreaming, mounted, options>>

\* return fullText
StreamReturns ==
    /\ chunks = <<>>
    /\ returned = NoText
    /\ returned' = fullText
    /\ UNCHANGED <<chunks, fullText, onTokenCalls, chatVars, sessVars,
                   providerVars, text, isStreaming, mounted, options>>

InitTokens ==
    /\ ChatUnused
    /\ config = [backend |-> "auto", model |-> Undefined,
                 systemPrompt |-> NoText]
    /\ webgpu \in BOOLEAN
    /\ useBackend = SelectBackend(config.backend, webgpu)
    /\ pc = "Ready" /\ warned = 0
    /\ engine = 1 /\ created = 1
    /\ currentModel = resolveModelId(useBackend,
                                     SelectModel(config.model, useBackend))
    /\ loadOps = <<>> /\ unloadOps = <<>>
    /\ lastCall = NoCall /\ lastLoad = "resolved" /\ lastUnload = "-"
    /\ live = {Engine(engine, currentModel)}
    /\ chunks \in UNION {[1..k -> ChunkTexts] : k \in 0..MaxChunks}
    /\ fullText = "" /\ onTokenCalls = <<>> /\ returned = NoText
    /\ ProviderUnused
    /\ text = "" /\ isStreaming = FALSE /\ mounted = "none"
    /\ options = NoOptions

NextTokens ==
    \/ NextChunk
    \/ StreamReturns

SpecTokens == InitTokens /\ [][NextTokens]_vars

(***************************************************************************)
(* LLMProvider on its own: load, unload, reload and the auto-load effect   *)
(***************************************************************************)
\* the autoLoad prop, at its default
autoLoad == TRUE

\* what the provider's actions leave alone
consumerVars == <<optVars, chatState, effectDue, sessVars, tokenVars, text,
                  isStreaming, mounted, options>>

\* the condition of the auto-load effect; it holds only in a render that
\* changed llm or isLoading (or the first), after which the effect runs
AutoLoadDue == autoLoad /\ ~hasLoadedRef /\ llm = NoLLM /\ ~isLoading

\* load() of a render in which isLoading is false, up to `await createLLM`
StartLoad ==
    /\ loadCalls < MaxLoads
    /\ isLoading' = TRUE
    /\ error' = FALSE
    /\ loadCalls' = loadCalls + 1
    /\ creating' = creating + 1

\* the effect "Auto-load on mount"
AutoLoadEffect ==
    /\ AutoLoadDue
    /\ hasLoadedRef' = TRUE
    /\ StartLoad
    /\ UNCHANGED <<llm, onErrorCalls, reloads, consumerVars>>

\* createLLM resolved: setLLM(instance), onLoad, finally setIsLoading(false)
CreateLLMResolves ==
    /\ ~AutoLoadDue
    /\ creating > 0
    /\ creating' = creating - 1
    /\ llm' = LoadedLLM
    /\ isLoading' = FALSE
    /\ UNCHANGED <<error, hasLoadedRef, loadCalls, onErrorCalls, reloads,
                   consumerVars>>

\* createLLM rejected: setError(error), onError, finally setIsLoading(false)
CreateLLMRejects ==
    /\ ~AutoLoadDue
    /\ creating > 0
    /\ creating' = creating - 1
    /\ error' = TRUE
    /\ onErrorCalls' = onErrorCalls + 1
    /\ isLoading' = FALSE
    /\ UNCHANGED <<llm, hasLoadedRef, loadCalls, reloads, consumerVars>>

\* unload() of the context value (the effect that follows it needs a load)
ContextUnload ==
    /\ ~AutoLoadDue
    /\ loadCalls < MaxLoads
    /\ llm # NoLLM
    /\ llm' = NoLLM
    /\ hasLoadedRef' = FALSE
    /\ UNCHANGED <<isLoading, error, loadCalls, onErrorCalls, creating,
                   reloads, consumerVars>>

\* reload() of the context value that no other call overlaps: await
\* unload(); await load(), the load() being the one of the render reload()
\* was called in
ContextReload ==
    /\ ~AutoLoadDue
    /\ IF llm # NoLLM
       THEN /\ loadCalls + 1 < MaxLoads    \* its load and the effect's
            /\ llm' = NoLLM /\ hasLoadedRef' = FALSE
       ELSE UNCHANGED <<llm, hasLoadedRef>>
    /\ IF isLoading
       THEN UNCHANGED <<isLoading, error, loadCalls, creating>>
       ELSE StartLoad
    /\ UNCHANGED <<onErrorCalls, reloads, consumerVars>>

(***************************************************************************)
(* LLMProvider with reload() calls that overlap: a call is followed from   *)
(* its start to the point where its `await unload()` has resolved          *)
(***************************************************************************)
\* reload() of the current render, up to the await inside unload()
ReloadCall ==
    /\ ~AutoLoadDue
    /\ Len(reloads) < MaxReloads
    /\ reloads' = Append(reloads, [llm |-> llm, isLoading |-> isLoading])
    /\ UNCHANGED <<llm, isLoading, error, hasLoadedRef, loadCalls,
                   onErrorCalls, creating, consumerVars>>

\* the unload() of reload call i resolved (after setLLM(null) when its
\* render had a model); the call goes on to load(), which looks at the
\* isLoading of its render
ReloadContinues(i) ==
    /\ ~AutoLoadDue
    /\ i \in 1..Len(reloads)
    /\ IF reloads[i].llm # NoLLM
       THEN llm' = NoLLM /\ hasLoadedRef' = FALSE
       ELSE UNCHANGED <<llm, hasLoadedRef>>
    /\ IF reloads[i].isLoading
       THEN UNCHANGED <<isLoading, error, loadCalls, creating>>
       ELSE StartLoad
    /\ reloads' = RemoveAt(reloads, i)
    /\ UNCHANGED <<onErrorCalls, consumerVars>>

InitProvider ==
    /\ ChatUnused
    /\ SessUnused
    /\ TokensUnused /\ ProviderUnused
    /\ text = "" /\ isStreaming = FALSE /\ mounted = "none"
    /\ options = NoOptions

NextProvider ==
    \/ AutoLoadEffect
    \/ CreateLLMResolves
    \/ CreateLLMRejects
    \/ ContextUnload
    \/ ReloadCall
    \/ \E i \in 1..Len(reloads) : ReloadContinues(i)

SpecProvider == InitProvider /\ [][NextProvider]_vars

(***************************************************************************)
(* useStream, mounted inside the provider.  The hook names its ref         *)
(* abortRef; streams holds its unfinished llm.stream calls and cb the      *)
(* last callback of its options that was invoked.                          *)
(***************************************************************************)
hookFrame == <<provVars, providerVars, optVars, messages, input,
               isGenerating, streamingText, pendingMessage, isProcessingRef,
               effectDue, held, holds, sessVars, tokenVars, mounted,
               options>>

\* stream(input) of the current render
hookStream(in) ==
    /\ ~AutoLoadDue
    /\ sends < MaxSends
    /\ IF ~isReady(llm)
       THEN UNCHANGED <<text, isStreaming, abortRef, streams, sends>>
       ELSE /\ isStreaming' = TRUE
            /\ text' = ""
            /\ abortRef' = FALSE
            /\ sends' = sends + 1
            /\ streams' = Append(streams,
                                 [content |-> in, full |-> "", n |-> 0,
                                  stopped |-> FALSE])
    /\ UNCHANGED <<cb, hookFrame>>

\* the token callback stream() passes to llm.stream
hookToken(i, token) ==
    /\ ~AutoLoadDue
    /\ i \in 1..Len(streams)
    /\ streams[i].n < MaxTokens
    /\ LET fullTextSoFar == streams[i].full \o token
       IN  /\ streams' = [streams EXCEPT ![i].full = fullTextSoFar,
                                         ![i].n = @ + 1]
           /\ IF abortRef
              THEN UNCHANGED <<text, cb>>
              ELSE /\ text' = fullTextSoFar
                   /\ cb' = Call(<<"onToken", token, fullTextSoFar>>)
    /\ UNCHANGED <<isStreaming, abortRef, sends, hookFrame>>

\* llm.stream resolved: onFinish(response), finally setIsStreaming(false)
hookStreamEnd(i) ==
    /\ ~AutoLoadDue
    /\ i \in 1..Len(streams)
    /\ cb' = Call(<<"onFinish", streams[i].full>>)
    /\ isStreaming' = FALSE
    /\ streams' = RemoveAt(streams, i)
    /\ UNCHANGED <<text, abortRef, sends, hookFrame>>

\* llm.stream rejected: onError(error), finally setIsStreaming(false)
hookStreamError(i) ==
    /\ ~AutoLoadDue
    /\ i \in 1..Len(streams)
    /\ cb' = Call(<<"onError">>)
    /\ isStreaming' = FALSE
    /\ streams' = RemoveAt(streams, i)
    /\ UNCHANGED <<text, abortRef, sends, hookFrame>>

\* stop(); the calls it stops are marked
hookStop ==
    /\ ~AutoLoadDue
    /\ abortRef' = TRUE
    /\ isStreaming' = FALSE
    /\ streams' = [k \in DOMAIN streams |->
                       [streams[k] EXCEPT !.stopped = TRUE]]
    /\ UNCHANGED <<text, sends, cb, hookFrame>>

\* clear()
hookClear ==
    /\ ~AutoLoadDue
    /\ text' = ""
    /\ UNCHANGED <<isStreaming, abortRef, streams, sends, cb, hookFrame>>

InitStream ==
    /\ ChatUnused
    /\ SessUnused
    /\ TokensUnused /\ ProviderUnused
    /\ text = "" /\ isStreaming = FALSE /\ mounted = "useStream"
    /\ options = NoOptions

NextStream ==
    \/ AutoLoadEffect
    \/ CreateLLMResolves
    \/ CreateLLMRejects
    \/ ContextUnload
    \/ ContextReload
    \/ \E in \in Texts : hookStream(in)
    \/ \E i \in 1..Len(streams), token \in Tokens : hookToken(i, token)
    \/ \E i \in 1..Len(streams) : hookStreamEnd(i)
    \/ \E i \in 1..Len(streams) : hookStreamError(i)
    \/ hookStop
    \/ hookClear

SpecStream == InitStream /\ [][NextStream]_vars

(***************************************************************************)
(* The <Chat> component, mounted inside the provider.  It keeps its state  *)
(* under the names useChat uses: messages, input, isGenerating,            *)
(* streamingText, pendingMessage, abortRef, isProcessingRef.               *)
(***************************************************************************)
DEFAULT_SYSTEM_PROMPT == "You are a helpful AI assistant."

chatFrame == <<provVars, providerVars, optVars, effectDue, held, holds,
               sessVars, tokenVars, text, isStreaming, mounted, options>>

\* generate: the system prompt sent, the default kept in front of a custom one
finalSystemPrompt(sp) ==
    IF sp # DEFAULT_SYSTEM_PROMPT
    THEN DEFAULT_SYSTEM_PROMPT \o "\n\nAdditional instructions:\n" \o sp
    ELSE sp

\* generate(userContent, currentMessages) up to `await llm.stream`
generate(userContent, currentMessages) ==
    IF generateResponseReturns(llm, isProcessingRef)
    THEN UNCHANGED <<messages, isGenerating, streamingText, abortRef,
                     isProcessingRef, streams>>
    ELSE /\ isProcessingRef' = TRUE
         /\ messages' = Append(messages, Msg("user", userContent))
         /\ isGenerating' = TRUE
         /\ streamingText' = ""
         /\ abortRef' = FALSE
         /\ streams' = Append(streams,
               [content |-> userContent,
                api |-> (IF systemPrompt \notin {NoText, ""}
                         THEN <<Msg("system", finalSystemPrompt(systemPrompt))>>
                         ELSE <<>>)
                        \o currentMessages \o <<Msg("user", userContent)>>,
                full |-> "", n |-> 0, ok |-> TRUE])

\* handleSend (no image attached)
handleSend ==
    /\ ~AutoLoadDue
    /\ sends < MaxSends
    /\ IF Trim(input) = ""
       THEN UNCHANGED <<messages, input, isGenerating, streamingText,
                        pendingMessage, abortRef, isProcessingRef, streams,
                        cb>>
       ELSE /\ input' = ""
            /\ cb' = Call(<<"onSend", Trim(input)>>)
            /\ IF isReady(llm)
               THEN /\ generate(Trim(input), messages)
                    /\ UNCHANGED pendingMessage
               ELSE /\ pendingMessage' = IF isLoading THEN Trim(input)
                                                      ELSE pendingMessage
                    /\ UNCHANGED <<messages, isGenerating, streamingText,
                                   abortRef, isProcessingRef, streams>>
    /\ CountSend(messages)
    /\ UNCHANGED chatFrame

\* the token callback generate passes to llm.stream
chatToken(i, token) ==
    /\ ~AutoLoadDue
    /\ i \in 1..Len(streams)
    /\ streams[i].n < MaxTokens
    /\ LET fullTextSoFar == streams[i].full \o token
       IN  /\ streams' = [streams EXCEPT ![i].full = fullTextSoFar,
                                         ![i].n = @ + 1]
           /\ streamingText' = IF TokenDropped(abortRef) THEN streamingText
                                                         ELSE fullTextSoFar
    /\ UNCHANGED <<messages, input, isGenerating, pendingMessage, abortRef,
                   isProcessingRef, sends, cb, chatFrame>>

\* llm.stream resolved: the response is committed unless stopped; finally
chatStreamEnd(i) ==
    /\ ~AutoLoadDue
    /\ i \in 1..Len(streams)
    /\ IF CommitResponse(abortRef)
       THEN /\ messages' = Append(messages,
                                  Msg("assistant", streams[i].full))
            /\ streamingText' = ""
            /\ cb' = Call(<<"onResponse", streams[i].full>>)
       ELSE UNCHANGED <<messages, streamingText, cb>>
    /\ streams' = RemoveAt(streams, i)
    /\ isGenerating' = FALSE
    /\ isProcessingRef' = FALSE
    /\ UNCHANGED <<input, pendingMessage, abortRef, sends, chatFrame>>

\* llm.stream rejected with an error whose message is "boom": onError, an
\* assistant message showing the error; finally
chatStreamError(i) ==
    /\ ~AutoLoadDue
    /\ i \in 1..Len(streams)
    /\ cb' = Call(<<"onError">>)
    /\ messages' = Append(messages, Msg("assistant", "Error: " \o "boom"))
    /\ streams' = RemoveAt(streams, i)
    /\ isGenerating' = FALSE
    /\ isProcessingRef' = FALSE
    /\ UNCHANGED <<input, streamingText, pendingMessage, abortRef, sends,
                   chatFrame>>

\* handleStop
handleStop ==
    /\ ~AutoLoadDue
    /\ abortRef' = TRUE
    /\ isGenerating' = FALSE
    /\ messages' = StopCommit(messages, streamingText)
    /\ streamingText' = ""
    /\ UNCHANGED <<input, pendingMessage, isProcessingRef, streams, sends,
                   cb, chatFrame>>

InitChatComponent ==
    /\ llm = NoLLM /\ isLoading = FALSE
    /\ initialMessages = <<>>
    /\ systemPrompt \in {DEFAULT_SYSTEM_PROMPT, "S"}
    /\ queueWhileLoading = TRUE
    /\ messages = <<>> /\ input = "" /\ isGenerating = FALSE
    /\ streamingText = "" /\ pendingMessage = NoText
    /\ abortRef = FALSE /\ isProcessingRef = FALSE /\ effectDue = FALSE
    /\ streams = <<>> /\ held = <<>> /\ holds = 0 /\ sends = 0
    /\ cb = <<"none">>
    /\ SessUnused
    /\ TokensUnused /\ ProviderUnused
    /\ text = "" /\ isStreaming = FALSE /\ mounted = "Chat"
    /\ options = NoOptions

NextChatComponent ==
    \/ AutoLoadEffect
    \/ CreateLLMResolves
    \/ CreateLLMRejects
    \/ ContextUnload
    \/ ContextReload
    \/ \E v \in {"", "A"} : ~AutoLoadDue /\ SetInput(v)
    \/ handleSend
    \/ \E i \in 1..Len(streams), token \in Tokens : chatToken(i, token)
    \/ \E i \in 1..Len(streams) : chatStreamEnd(i)
    \/ \E i \in 1..Len(streams) : chatStreamError(i)
    \/ handleStop

\* every handler and continuation that can run eventually runs
SpecChatComponent ==
    InitChatComponent /\ [][NextChatComponent]_vars
    /\ WF_vars(NextChatComponent)

\* a page that mounts useChat (with a system prompt and queueing, as
\* ChatStressTest does), <Chat> or useStream
InitChatUI ==
    \/ InitChat /\ systemPrompt = "S"
    \/ InitChatComponent
    \/ InitStream

NextChatUI ==
    \/ mounted = "useChat" /\ NextChat
    \/ mounted = "Chat" /\ NextChatComponent
    \/ mounted = "useStream" /\ NextStream

SpecChatUI == InitChatUI /\ [][NextChatUI]_vars

(***************************************************************************)
(* attachToElements (DOM helper): one input element, one output element    *)
(* and a generateFn; the keydown listener runs handleGenerate              *)
(***************************************************************************)
loadingText == "Thinking..."

attachVars == <<isGenerating, input, text, streams, sends, mounted>>
attachFrame == <<provVars, providerVars, optVars, messages, streamingText,
                 pendingMessage, abortRef, isProcessingRef, effectDue, held,
                 holds, cb, sessVars, tokenVars, isStreaming, options>>

\* the user edits the input element
typeInput(v) ==
    /\ input # v
    /\ input' = v
    /\ UNCHANGED <<isGenerating, text, streams, sends, mounted, attachFrame>>

\* a handleGenerate without its flag
handleGenerateUnguarded(flag) == FALSE

\* `if (isGenerating) return`
handleGenerateReturns(flag) == flag

\* handleGenerate up to `await generateFn(text, streamer)`
handleGenerate ==
    LET trimmed == Trim(input)
    IN  IF handleGenerateReturns(isGenerating) \/ trimmed = ""
        THEN UNCHANGED <<isGenerating, input, text, streams, sends>>
        ELSE /\ isGenerating' = TRUE
             /\ input' = IF options.clearOnSend THEN "" ELSE input
             /\ text' = IF options.showLoading THEN loadingText ELSE text
             /\ streams' = Append(streams,
                                  [content |-> trimmed, full |-> "", n |-> 0])
             /\ sends' = sends + 1

\* the keydown listener of the input element
keydownHandler(key, shiftKey) ==
    /\ mounted = "attached"
    /\ sends < MaxSends
    /\ IF options.triggerOnEnter /\ key = "Enter" /\ ~shiftKey
       THEN handleGenerate
       ELSE UNCHANGED <<isGenerating, input, text, streams, sends>>
    /\ UNCHANGED <<mounted, attachFrame>>

\* generateFn calls the streamer made by createOutputStreamer(output)
streamer(i, token) ==
    /\ i \in 1..Len(streams)
    /\ streams[i].n < MaxTokens
    /\ LET fullTextSoFar == streams[i].full \o token
       IN  /\ streams' = [streams EXCEPT ![i].full = fullTextSoFar,
                                         ![i].n = @ + 1]
           /\ text' = fullTextSoFar
    /\ UNCHANGED <<isGenerating, input, sends, mounted, attachFrame>>

\* generateFn resolved: finally
generateFnResolves(i) ==
    /\ i \in 1..Len(streams)
    /\ streams' = RemoveAt(streams, i)
    /\ isGenerating' = FALSE
    /\ UNCHANGED <<input, text, sends, mounted, attachFrame>>

\* generateFn rejected: catch (the error is shown in the output), finally
generateFnRejects(i) ==
    /\ i \in 1..Len(streams)
    /\ streams' = RemoveAt(streams, i)
    /\ text' = "Error: boom"
    /\ isGenerating' = FALSE
    /\ UNCHANGED <<input, sends, mounted, attachFrame>>

\* the cleanup function attachToElements returned
cleanup ==
    /\ mounted = "attached"
    /\ mounted' = "detached"
    /\ UNCHANGED <<isGenerating, input, text, streams, sends, attachFrame>>

AttachOptions == [triggerOnEnter : BOOLEAN, clearOnSend : BOOLEAN,
                  showLoading : BOOLEAN]

InitAttach ==
    /\ ChatUnused
    /\ SessUnused
    /\ TokensUnused /\ ProviderUnused
    /\ text = "" /\ isStreaming = FALSE /\ mounted = "attached"
    /\ options \in AttachOptions

NextAttach ==
    \/ \E v \in {"", " ", "A"} : typeInput(v)
    \/ \E key \in {"Enter", "a"}, shiftKey \in BOOLEAN :
          keydownHandler(key, shiftKey)
    \/ \E i \in 1..Len(streams), token \in Tokens : streamer(i, token)
    \/ \E i \in 1..Len(streams) : generateFnResolves(i)
    \/ \E i \in 1..Len(streams) : generateFnRejects(i)
    \/ cleanup

SpecAttach == InitAttach /\ [][NextAttach]_vars

(***************************************************************************)
(* Claims about useChat                                                    *)
(***************************************************************************)
\* the step started a generation: one more llm.stream call is unfinished
Started == Len(streams') = Len(streams) + 1
NewestStream == streams'[Len(streams')]

\* C1: eager submission. (a) a send(t) with non-blank t, made while the
\* model is loading and not ready with queueWhileLoading on, appends the user
\* message at once and makes isPending true; (b) once the model is ready the
\* submission is processed without another send(): with the model ready, the
\* pending effect run and no generation in flight, nothing is pending.
C1_EagerSubmission ==
    [][ /\ \A t \in Texts :
              (Send(t) /\ ~isReady(llm) /\ isLoading /\ queueWhileLoading)
              => /\ messages' = Append(messages, Msg("user", t))
                 /\ pendingMessage' = t
        /\ (isReady(llm') /\ ~effectDue' /\ streams' = <<>>)
              => pendingMessage' = NoText ]_vars

\* C2: a message queued during loading is in the history exactly once: the
\* queueing send() appends it, the generation started for it later adds no
\* second copy, and its natural completion appends one assistant message.
C2_QueuedOnce ==
    [][ /\ \A t \in Texts :
              (Send(t) /\ ~isReady(llm) /\ isLoading /\ queueWhileLoading)
              => messages' = Append(messages, Msg("user", t))
        /\ (PendingEffect /\ Started) => messages' = messages
        /\ (\E i \in 1..Len(streams) : StreamEnd(i) /\ ~abortRef)
              => \E r \in {streams[i].full : i \in 1..Len(streams)} :
                    messages' = Append(messages, Msg("assistant", r)) ]_vars

\* C3: at most one llm.stream call started by the hook is unfinished.
C3_OneGeneration == Len(streams) <= 1

\* a generation was stopped and its llm.stream call is still unfinished
C3_Witness == Len(streams) = 1 /\ isProcessingRef /\ ~isGenerating /\ abortRef

\* C4: while isGenerating is true a send() call starts no second generation
\* and leaves history, pending submission, streamingText, isGenerating and
\* the controlled input as they were.
C4_SendWhileGenerating ==
    [][ (isGenerating /\ \E c \in Texts \cup Blanks \cup {Undefined} : Send(c))
        => UNCHANGED <<messages, pendingMessage, streamingText, isGenerating,
                       input, streams>> ]_vars

\* C5 as stated: stop() during a generation whose accumulated text is T
\* appends exactly the assistant message T + "...", empties streamingText and
\* clears isGenerating, for every T.
C5_StopAnyText ==
    [][ (Stop /\ isGenerating /\ streams # <<>>)
        => /\ messages' =
                 Append(messages, Msg("assistant", streamingText \o "..."))
           /\ streamingText' = ""
           /\ ~isGenerating' ]_vars

\* C5 amended: stop() during a generation whose accumulated text T is not
\* empty appends exactly the assistant message T + "...", empties
\* streamingText and clears isGenerating; when the llm.stream call of the
\* stopped generation ends afterwards, the history does not change.
C5_StopCommitsPartial ==
    [][ /\ (Stop /\ isGenerating /\ streams # <<>> /\ streamingText # "")
           => /\ messages' =
                    Append(messages, Msg("assistant", streamingText \o "..."))
              /\ streamingText' = ""
              /\ ~isGenerating'
        /\ (abortRef /\ Len(streams') < Len(streams))
           => messages' = messages ]_vars

\* the partial text was committed and the stopped call has not ended yet
C5_Witness ==
    /\ abortRef /\ ~isGenerating /\ streams # <<>> /\ streamingText = ""
    /\ messages # <<>>
    /\ messages[Len(messages)] = Msg("assistant", streams[1].full \o "...")
    /\ streams[1].full # ""

\* C6: while a stopped generation's llm.stream call is unfinished the abort
\* flag stays set whatever is called, and nothing the call delivers or
\* returns changes streamingText or the history or reaches onToken/onFinish.
C6_StoppedIsSilent ==
    [][ (abortRef /\ streams # <<>>)
        => /\ streams' # <<>> => abortRef'
           /\ streams' # streams
              => /\ streamingText' = streamingText
                 /\ messages' = messages
                 /\ cb' = cb \/ cb' = <<"onError">> ]_vars

\* a token arrived after stop(): the call has text, the hook shows none and
\* no partial message was committed
C6_Witness ==
    /\ abortRef /\ streams # <<>> /\ streams[1].full # ""
    /\ streamingText = ""
    /\ messages # <<>> /\ messages[Len(messages)].role = "user"

\* C7: reload() with the model ready and nothing in flight, on a history
\* whose last user message is at index i, leaves the messages before i
\* followed by that user message and starts a generation for its content; the
\* natural completion of a generation appends one assistant message.
C7_Reload ==
    [][ /\ (Reload /\ isReady(llm) /\ ~isGenerating /\ streams = <<>>
               /\ findLastUserIndex(messages) # 0)
           => LET i == findLastUserIndex(messages)
              IN  /\ messages' = Append(SubSeq(messages, 1, i - 1), messages[i])
                  /\ Started
                  /\ NewestStream.content = messages[i].content
        /\ (\E i \in 1..Len(streams) : StreamEnd(i) /\ ~abortRef)
              => \E r \in {streams[i].full : i \in 1..Len(streams)} :
                    messages' = Append(messages, Msg("assistant", r)) ]_vars

\* C8: the list handed to llm.stream is the system prompt (if any) followed
\* by the history holding the new user message once, at its end: the history
\* after the step for send() and reload(), which add the message, and the
\* history before the step for a pending submission, added when it was queued.
C8_ApiMessages ==
    [][ Started
        => NewestStream.api =
              (IF systemPrompt \notin {NoText, ""}
                  THEN <<Msg("system", systemPrompt)>> ELSE <<>>)
              \o (IF PendingEffect THEN messages ELSE messages') ]_vars

(***************************************************************************)
(* Claims about createLLM and the adapters                                 *)
(***************************************************************************)
\* C9: chat() and stream() on an adapter whose state is unset reject with
\* NotLoaded and leave it unset (modelId null, isReady false); on an adapter
\* that is loaded, whatever was rejected before, the call is served.
C9_NotLoaded ==
    [][ lastCall' # lastCall
        => IF engine = NoEngine /\ currentModel = NoText
           THEN /\ lastCall'.result = "NotLoaded"
                /\ engine' = NoEngine /\ providerModelId' = NoText
                /\ ~providerIsReady'
           ELSE providerIsReady => lastCall'.result = "served" ]_vars

\* a call was rejected after the adapter had been loaded and unloaded
C9_Witness ==
    /\ lastCall.result = "NotLoaded" /\ created >= 1 /\ engine = NoEngine
    /\ loadOps = <<>> /\ pc = "Ready"

\* C10: the facade's backend is webllm only if the probe reports the GPU
\* path; webllm requested without it selects transformers with a warning and
\* createLLM goes on to load; the backend never changes once selected.
C10_BackendSelection ==
    [][ /\ pc' # "Probe"
           => /\ facadeBackend' \in {"webllm", "transformers"}
              /\ facadeBackend' = "webllm" => webgpu'
              /\ (config'.backend = "webllm" /\ ~webgpu')
                 => facadeBackend' = "transformers" /\ warned' = 1
        /\ pc = "Probe" => pc' = "Load"
        /\ pc # "Probe" => facadeBackend' = facadeBackend ]_vars

\* webllm was requested, the probe said no, the facade runs on transformers
C10_Witness ==
    /\ config.backend = "webllm" /\ ~webgpu /\ pc = "Ready"
    /\ facadeBackend = "transformers" /\ warned = 1 /\ providerIsReady

\* C11: with a non-empty system prompt S the list handed to the adapter is
\* [system:S] followed by the messages of the input in their order, a string
\* counting as one user message: [system:S, user:"hi"] for "hi" and for
\* [user:"hi"] alike; the caller's argument is as it was passed.
C11_Normalize ==
    [][ (lastCall' # lastCall /\ lastCall'.result = "served"
         /\ config.systemPrompt \notin {NoText, ""})
        => /\ lastCall'.req = <<Msg("system", config.systemPrompt)>>
                               \o (IF lastCall'.arg.kind = "string"
                                   THEN <<Msg("user", lastCall'.arg.str)>>
                                   ELSE lastCall'.arg.arr)
           /\ lastCall'.arg \in Inputs
           /\ (lastCall'.arg.str = "hi"
               \/ lastCall'.arg.arr = <<Msg("user", "hi")>>)
              => lastCall'.req = <<Msg("system", config.systemPrompt),
                                   Msg("user", "hi")>> ]_vars

\* the string "hi" was sent through a facade created with system prompt S
C11_Witness ==
    /\ lastCall.result = "served" /\ lastCall.arg.kind = "string"
    /\ config.systemPrompt = "S"
    /\ lastCall.req = <<Msg("system", "S"), Msg("user", "hi")>>

\* C12: unload() on an adapter that is already unloaded is a no-op: the
\* engine's teardown is not called and the state stays unset.
C12_UnloadIdempotent ==
    [][ (unload /\ engine = NoEngine /\ currentModel = NoText)
        => /\ lastUnload' = "no teardown"
           /\ unloadOps' = unloadOps
           /\ engine' = NoEngine /\ currentModel' = NoText ]_vars

\* unload() was called on an adapter that had been loaded and unloaded
C12_Witness ==
    /\ lastUnload = "no teardown" /\ created >= 1 /\ engine = NoEngine
    /\ currentModel = NoText /\ unloadOps = <<>> /\ loadOps = <<>>
    /\ useBackend = "webllm"

\* C13: a load() that fails on an adapter with no model loaded leaves the
\* state unset (isReady false, modelId null) and its error ends createLLM,
\* which then never returns a facade.
C13_LoadFails ==
    [][ /\ (lastLoad' = "rejected" /\ loadOps' # loadOps
            /\ engine = NoEngine /\ currentModel = NoText)
           => /\ engine' = NoEngine /\ providerModelId' = NoText
              /\ ~providerIsReady'
              /\ pc = "Load" => pc' = "LoadFailed"
        /\ pc = "LoadFailed" => pc' = "LoadFailed" ]_vars

\* createLLM rejected because the load of its adapter failed
C13_Witness ==
    /\ pc = "LoadFailed" /\ lastLoad = "rejected" /\ engine = NoEngine
    /\ currentModel = NoText /\ created = 0

(***************************************************************************)
(* Claims about LLMProvider and useStream                                  *)
(***************************************************************************)
\* C14: when createLLM rejects the provider ends with error set, llm null,
\* isLoading false and one more onError call; while the error stands no
\* load is started except by reload(), and a reload() on the failed provider
\* starts exactly one.
C14_NoAutoRetry ==
    [][ /\ (isLoading /\ ~isLoading' /\ llm' = NoLLM)
           => error' /\ onErrorCalls' = onErrorCalls + 1
        /\ (error /\ loadCalls' # loadCalls)
           => ContextReload /\ loadCalls' = loadCalls + 1
        /\ (error /\ ~isLoading /\ ContextReload /\ loadCalls < MaxLoads)
           => loadCalls' = loadCalls + 1 ]_vars

\* C16: at most one llm.stream call of a useStream instance is unfinished.
C16_OneStream == mounted = "useStream" => Len(streams) <= 1

\* C17: after stop() isStreaming is false, and no token of a call that was
\* stopped changes text or reaches onToken, whatever was called since.
C17_StoppedStreamSilent ==
    [][ /\ hookStop => ~isStreaming'
        /\ (\E i \in 1..Len(streams) :
               /\ streams[i].stopped
               /\ Len(streams') = Len(streams)
               /\ streams'[i].n > streams[i].n)
           => text' = text /\ cb' = cb ]_vars

(***************************************************************************)
(* Claims about the <Chat> component and about failing generations         *)
(***************************************************************************)
\* C15: a failing llm.stream is caught per request: useChat calls onError
\* and leaves the history as it is, <Chat> calls onError and appends one
\* assistant message "Error: <message>" to the history it had; both clear
\* isGenerating and release the guard, and a send() on the ready model with
\* the guard released starts a generation.
C15_StreamFailure ==
    [][ /\ (mounted = "useChat" /\ \E i \in 1..Len(streams) : StreamError(i))
           => /\ messages' = messages /\ cb' = <<"onError">>
              /\ ~isGenerating' /\ ~isProcessingRef'
        /\ (mounted = "Chat"
            /\ \E i \in 1..Len(streams) : chatStreamError(i))
           => /\ messages' = Append(messages,
                                    Msg("assistant", "Error: boom"))
              /\ cb' = <<"onError">>
              /\ ~isGenerating' /\ ~isProcessingRef'
        /\ (mounted = "useChat" /\ isReady(llm) /\ ~isProcessingRef
            /\ \E t \in Texts : Send(t))
           => Started
        /\ (mounted = "Chat" /\ isReady(llm) /\ ~isProcessingRef
            /\ Trim(input) # "" /\ handleSend)
           => Started ]_vars

\* <Chat> shows the error of a failed generation and is generating again
C15_Witness ==
    /\ mounted = "Chat" /\ isGenerating /\ streams # <<>>
    /\ \E k \in 1..Len(messages) :
          messages[k] = Msg("assistant", "Error: boom")

\* C18: a message sent through <Chat> while the model is loading is
\* processed once the model is ready: eventually its user message is in
\* the conversation (generate puts it there when it starts the generation).
C18_QueuedIsProcessed ==
    \A t \in Texts :
        (mounted = "Chat" /\ pendingMessage = t /\ isReady(llm))
        ~> (\E k \in 1..Len(messages) : messages[k] = Msg("user", t))

(***************************************************************************)
(* Claims about the adapters' stream() and about the pending submission    *)
(***************************************************************************)
\* the concatenation of the tokens of the first k onToken calls
RECURSIVE TokensUpTo(_, _)
TokensUpTo(calls, k) ==
    IF k = 0 THEN "" ELSE TokensUpTo(calls, k - 1) \o calls[k][1]

\* C19: at each onToken(token, fullTextSoFar) call of a stream() call
\* fullTextSoFar is the concatenation of the tokens delivered so far, the
\* current one included, and stream() returns the fullTextSoFar of the last
\* call, or the empty text when there was none.
C19_TokenContract ==
    /\ \A k \in 1..Len(onTokenCalls) :
          onTokenCalls[k][2] = TokensUpTo(onTokenCalls, k)
    /\ returned # NoText
          => returned = IF onTokenCalls = <<>> THEN ""
                        ELSE onTokenCalls[Len(onTokenCalls)][2]

\* a call that delivered two tokens and returned their concatenation
C19_Witness ==
    /\ Len(onTokenCalls) = 2 /\ returned = "ab"
    /\ onTokenCalls[1] = <<"a", "a">> /\ onTokenCalls[2] = <<"b", "ab">>

\* C20: a send() made while a submission is pending overwrites it, and
\* when the effect finds the model ready with a submission pending it
\* starts exactly one generation, for the pending (most recent) text, and
\* nothing is pending afterwards.
C20_OnePending ==
    [][ /\ \A t \in Texts :
              (Send(t) /\ ~isReady(llm) /\ isLoading /\ queueWhileLoading
               /\ pendingMessage # NoText)
              => pendingMessage' = t
        /\ (PendingEffect /\ isReady(llm)
            /\ pendingMessage \notin {NoText, ""})
           => /\ Started
              /\ NewestStream.content = pendingMessage
              /\ pendingMessage' = NoText ]_vars

(***************************************************************************)
(* Claims about the provider's life cycle and the idle states of useChat   *)
(***************************************************************************)
\* C21: the provider loads by itself on mount only: unload() leaves llm
\* null with no load in flight, and every load after the first is started
\* by reload().
C21_LoadOnMountOnly ==
    [][ /\ ContextUnload => (llm' = NoLLM /\ ~isLoading')
        /\ (loadCalls > 0 /\ loadCalls' # loadCalls) => ContextReload ]_vars

\* C22: clear() resets the history to initialMessages and empties
\* streamingText, the controlled input and the pending submission; with
\* nothing pending the effect starts no generation, so none starts for a
\* submission that was cleared.
C22_Clear ==
    [][ /\ Clear => /\ messages' = initialMessages
                    /\ streamingText' = "" /\ input' = ""
                    /\ pendingMessage' = NoText
        /\ (PendingEffect /\ pendingMessage = NoText) => ~Started ]_vars

\* the model became ready after a history with a queued message was
\* cleared: the history is the seed, nothing is pending, nothing runs
C22_Witness ==
    /\ isReady(llm) /\ ~effectDue /\ sends >= 1
    /\ messages = initialMessages /\ initialMessages # <<>>
    /\ pendingMessage = NoText /\ input = "" /\ streamingText = ""
    /\ streams = <<>> /\ ~isGenerating /\ cb = <<"none">>

\* C23: when llm.stream resolves for a generation that was not stopped,
\* exactly one assistant message with the returned text is appended,
\* streamingText is emptied, onFinish receives the text, isGenerating is
\* false and the guard is released.
C23_Completion ==
    [][ \A i \in 1..Len(streams) :
          (StreamEnd(i) /\ ~abortRef)
          => /\ messages' = Append(messages,
                                   Msg("assistant", streams[i].full))
             /\ streamingText' = ""
             /\ cb' = <<"onFinish", streams[i].full>>
             /\ ~isGenerating' /\ ~isProcessingRef'
             /\ Len(streams') = Len(streams) - 1 ]_vars

\* a generation completed: its text is the last message and went to onFinish
C23_Witness ==
    /\ cb = <<"onFinish", "x">> /\ messages # <<>>
    /\ messages[Len(messages)] = Msg("assistant", "x")
    /\ streamingText = "" /\ ~isGenerating /\ ~isProcessingRef
    /\ streams = <<>>

\* C24: after stop() (isGenerating false, abort flag set) a send() with
\* non-blank text on the ready model, given as the argument or typed in
\* the controlled input, starts a new generation.
C24_SendAfterStop ==
    [][ (/\ abortRef /\ ~isGenerating /\ isReady(llm)
         /\ \/ \E t \in Texts : Send(t)
            \/ input \in Texts /\ Send(Undefined))
        => Started ]_vars

\* C27: send() with blank text, or with the model neither ready nor
\* loading, or loading with queueWhileLoading false, leaves history, the
\* pending submission and isGenerating unchanged and starts no generation.
C27_SendNoOp ==
    [][ \A c \in Texts \cup Blanks \cup {Undefined} :
          (/\ Send(c)
           /\ \/ c \in Blanks
              \/ c = Undefined /\ input \in Blanks
              \/ ~isReady(llm) /\ ~isLoading
              \/ ~isReady(llm) /\ isLoading /\ ~queueWhileLoading)
          => UNCHANGED <<messages, pendingMessage, isGenerating, streams>>
       ]_vars

\* the typed text was sent while the model was loading with queueing
\* switched off: the input is cleared, nothing was queued
C27_Witness ==
    /\ ~queueWhileLoading /\ isLoading /\ ~isReady(llm)
    /\ input = "" /\ messages = initialMessages
    /\ pendingMessage = NoText /\ ~isGenerating /\ streams = <<>>

\* C30: whenever isGenerating is false, streamingText is empty.
C30_IdleNoStreamingText == ~isGenerating => streamingText = ""

\* the stream calls in flight are the same calls after the step: none was
\* removed or added, and each keeps what it was called with and produced
SameStreamCalls ==
    /\ Len(streams') = Len(streams)
    /\ \A k \in 1..Len(streams) :
          /\ streams'[k].content = streams[k].content
          /\ streams'[k].full = streams[k].full
          /\ streams'[k].n = streams[k].n

\* C25: stop() of useChat, of useStream and of <Chat> is advisory: the
\* model object, the provider's state and the adapter's state are
\* unchanged (no call reaches the adapter) and the stream calls in flight
\* stay in flight, to end by themselves.
C25_StopAdvisory ==
    [][ (\/ mounted = "useChat" /\ Stop
         \/ mounted = "useStream" /\ hookStop
         \/ mounted = "Chat" /\ handleStop)
        => /\ UNCHANGED <<llm, isLoading, providerVars, sessVars>>
           /\ SameStreamCalls ]_vars

\* a stream call stopped by useStream.stop() went on producing: its token
\* was delivered after the stop and dropped, the model is still loaded
C25_Witness ==
    /\ mounted = "useStream" /\ abortRef /\ ~isStreaming
    /\ isReady(llm) /\ streams # <<>>
    /\ streams[1].stopped /\ streams[1].full = "x" /\ text = ""
    /\ cb = <<"none">>

(* Claims about the adapters' engines and model identifiers *)
\* C26: an adapter never holds two live engine handles: at most one
\* engine that was created and not torn down exists at any time.
C26_OneLiveEngine == Cardinality(live) <= 1

\* the aliases of the registry of backend b
Aliases(b) == IF b = "webllm" THEN DOMAIN WEBLLM_MODELS
                              ELSE DOMAIN TRANSFORMERS_MODELS

\* the identifier load(id) is to use: the alias's, or id itself
Resolved(b, id) ==
    IF id \in Aliases(b)
    THEN (IF b = "webllm" THEN WEBLLM_MODELS[id] ELSE TRANSFORMERS_MODELS[id])
    ELSE id

\* C28: load(id) resolves a known alias to its concrete identifier and
\* passes any other identifier through unchanged; a successful load makes
\* modelId the resolved identifier; resolving a resolved identifier
\* returns it unchanged.
C28_Resolution ==
    [][ /\ \A id \in ModelIds :
              load(id)
              => /\ loadOps' = Append(loadOps, Resolved(useBackend, id))
                 /\ resolveModelId(useBackend, loadOps'[Len(loadOps')])
                    = loadOps'[Len(loadOps')]
        /\ \A i \in 1..Len(loadOps) :
              LoadResolves(i) => currentModel' = loadOps[i] ]_vars

\* C29: between operations the engine handle and currentModel are both
\* null or both non-null, isReady is true exactly when modelId is
\* non-null, and modelId is the model the current engine was created for.
C29_EngineAndModel ==
    /\ (engine = NoEngine) = (currentModel = NoText)
    /\ providerIsReady = (providerModelId # NoText)
    /\ engine # NoEngine => Engine(engine, currentModel) \in live

\* a second load() replaced the engine: the adapter holds the second
\* engine with the model of the second load
C29_Witness ==
    /\ engine = 2 /\ currentModel = "my/model" /\ providerIsReady
    /\ lastLoad = "resolved" /\ Engine(2, "my/model") \in live

(* Claims about the history of useChat *)
\* C31: in a history grown from an empty seed each assistant message
\* directly follows a user message (append() of the model adds user
\* messages only, so it adds no assistant message of its own).
C31_AssistantFollowsUser ==
    initialMessages = <<>>
    => \A k \in 1..Len(messages) :
          messages[k].role = "assistant"
          => k > 1 /\ messages[k - 1].role = "user"

\* C32: reload() never drops the last user message: when the history has
\* a user message, the history after reload() is the messages before the
\* last user message followed by that message, and a generation or a
\* pending submission exists for its content; without a user message the
\* history is unchanged.
C32_ReloadKeepsUser ==
    [][ Reload
        => LET i == findLastUserIndex(messages)
           IN  IF i = 0
               THEN messages' = messages
               ELSE /\ messages' = Append(SubSeq(messages, 1, i - 1),
                                          messages[i])
                    /\ \/ Started
                          /\ NewestStream.content = messages[i].content
                       \/ pendingMessage' = messages[i].content ]_vars

(* Claims about the loads of LLMProvider and the pending submission *)
\* C33: at most one createLLM call is in flight per LLMProvider.
C33_OneLoadInFlight == creating <= 1

\* the user message with content t is in the history ms
UserIn(t, ms) == \E k \in 1..Len(ms) : ms[k] = Msg("user", t)

\* C34: a failure of the model load while a submission is pending starts
\* no generation and leaves the pending submission and the history as they
\* are; afterwards, with the model neither ready nor loading, the
\* submission stays pending with its user message in the history through
\* every step but stop(), clear() and the model becoming ready.
C34_LoadFailsWhilePending ==
    [][ /\ (ProviderLoadFail /\ pendingMessage # NoText)
           => /\ pendingMessage' = pendingMessage
              /\ messages' = messages
              /\ ~Started
        /\ (/\ ~isReady(llm) /\ ~isLoading /\ pendingMessage # NoText
            /\ UserIn(pendingMessage, messages)
            /\ ~Stop /\ ~Clear /\ ~isReady(llm'))
           => /\ pendingMessage' = pendingMessage
              /\ UserIn(pendingMessage, messages') ]_vars

\* C35: stop() while a submission is pending (model loading, nothing
\* generating) cancels it: nothing is pending afterwards, its user message
\* stays in the history, and the effect that runs when the model becomes
\* ready starts no generation, as it does whenever nothing is pending.
C35_StopCancelsPending ==
    [][ /\ (Stop /\ pendingMessage # NoText /\ isLoading /\ ~isGenerating)
           => /\ pendingMessage' = NoText
              /\ ~Started
              /\ UserIn(pendingMessage, messages)
                 => UserIn(pendingMessage, messages')
        /\ (PendingEffect /\ isReady(llm) /\ pendingMessage = NoText)
           => (~Started /\ messages' = messages) ]_vars

\* a queued message was stopped and the model became ready: its user
\* message is the history, nothing is pending, no generation ever started
C35_Witness ==
    /\ isReady(llm) /\ ~effectDue /\ abortRef
    /\ initialMessages = <<>> /\ messages = <<Msg("user", "A")>>
    /\ pendingMessage = NoText /\ ~isGenerating /\ streams = <<>>
    /\ cb = <<"none">>

(* Claims about tearing an engine down *)
\* C36: an engine handle is torn down at most once: no two unload() calls
\* of one WebLLM adapter have invoked the native unload of the same engine.
C36_OneTeardown ==
    \A i, j \in 1..Len(unloadOps) :
        i # j => unloadOps[i] # unloadOps[j]

(* Claims about attachToElements *)
\* C37: attachToElements runs at most one generation at a time: a trigger
\* while a generation is in flight starts none, the flag is cleared when
\* generateFn resolves or rejects, and an Enter with non-blank input while
\* no generation is in flight starts one.
C37_OneGenerationPerAttachment ==
    [][ /\ Len(streams') <= 1
        /\ isGenerating' = (streams' # <<>>)
        /\ \A i \in 1..Len(streams) :
              (generateFnResolves(i) \/ generateFnRejects(i))
              => ~isGenerating'
        /\ (/\ ~isGenerating /\ Trim(input) # "" /\ options.triggerOnEnter
            /\ keydownHandler("Enter", FALSE))
           => (Started /\ NewestStream.content = Trim(input)) ]_vars

\* after a generation that failed, a second one is in flight
C37_Witness ==
    /\ mounted = "attached" /\ isGenerating /\ Len(streams) = 1
    /\ sends = 2 /\ ~options.showLoading /\ text = "Error: boom"

(* Claims about stop() without streamed text *)
\* C38: stop() invoked when streamingText is empty, before the first
\* token of a generation or with nothing in flight, appends no message to
\* the history.
C38_StopWithoutText ==
    [][ (Stop /\ streamingText = "") => messages' = messages ]_vars

\* a generation was stopped before its first token: the history ends with
\* its user message
C38_Witness ==
    /\ abortRef /\ ~isGenerating /\ streamingText = ""
    /\ Len(streams) = 1 /\ streams[1].n = 0
    /\ messages # <<>>
    /\ messages[Len(messages)] = Msg("user", streams[1].content)

====
